---- MODULE Spec2Model ----
(***************************************************************************)
(* A model of packages/query/src/actions.ts of pgtyped: the authentication *)
(* handshake (startup), the simple query runner (runQuery), the type       *)
(* prober (getTypeData), the explain validator (explainQuery), the catalog *)
(* aggregation (reduceTypeRows), the identifier escaper                    *)
(* (escapeSqlIdentifier) and the orchestrator (getTypes).                  *)
(*                                                                         *)
(* Four specifications share the variables:                                *)
(*   SpecEscape   escapeSqlIdentifier applied to bounded strings           *)
(*   SpecReduce   reduceTypeRows applied to bounded row lists              *)
(*   SpecStartup  startup against a server that picks the auth method      *)
(*   Spec         getTypes calls on one channel against a server speaking  *)
(*                the extended-query and simple-query protocols            *)
(***************************************************************************)
EXTENDS Integers, Sequences, FiniteSets, TLC

VARIABLES
    \* escapeSqlIdentifier
    escIn, escOut, escDone,
    \* reduceTypeRows
    redIn, redOut, redDone,
    \* the message channel (AsyncQueue) and what the client sent on it
    toServer, inbox, sentLog,
    \* startup: options.password, position, AuthOutcome, first reply, SASL session
    suPassword, suPc, suOutcome, suFirst, saslSession,
    \* the server during the handshake
    suSrv,
    \* getTypes: the frame of the current call (position, locals, outcome)
    cl,
    \* the server after the handshake: error latch, prepared statements,
    \* replies not yet flushed
    srv,
    \* history: what happened in this call and the one before
    hist

escVars == <<escIn, escOut, escDone>>
redVars == <<redIn, redOut, redDone>>
chanVars == <<toServer, inbox, sentLog>>
suVars == <<suPassword, suPc, suOutcome, suFirst, saslSession, suSrv>>
tyVars == <<cl, srv, hist>>
vars == <<escVars, redVars, chanVars, suVars, tyVars>>

\* Value of an absent optional property (hint?, position?, columnName?).
Undef == "undefined"

Range(s) == {s[i] : i \in 1..Len(s)}

\* All sequences over S of length at most n.
SeqsUpTo(S, n) == UNION {[1..k -> S] : k \in 0..n}

\* { ...obj, [key]: value }
Put(obj, key, value) ==
    [k \in (DOMAIN obj) \cup {key} |-> IF k = key THEN value ELSE obj[k]]

EmptyObj == [k \in {} |-> Undef]

(***************************************************************************)
(* escapeSqlIdentifier.  A string is a sequence of characters; DQ is the   *)
(* double quote and NUL the character \0.                                  *)
(***************************************************************************)
DQ == "\""
NUL == "NUL"
Alphabet == {"a", DQ, NUL}
MaxLen == 4

\* str.replace(/["\0]/g, '""') : every double quote and every NUL becomes two
\* double quotes.
ReplaceQuoteOrNul_Single(ch) == IF ch \in {DQ, NUL} THEN <<DQ>> ELSE <<ch>>
ReplaceQuoteOrNul(ch) == IF ch \in {DQ, NUL} THEN <<DQ, DQ>> ELSE <<ch>>

RECURSIVE ReplaceAll(_)
ReplaceAll(str) ==
    IF str = <<>> THEN <<>> ELSE ReplaceQuoteOrNul(Head(str)) \o ReplaceAll(Tail(str))

escapeSqlIdentifier(str) == <<DQ>> \o ReplaceAll(str) \o <<DQ>>

\* How a quoted identifier is read back: the outer quotes are stripped and
\* each doubled double quote stands for one.
StripOuter(s) == SubSeq(s, 2, Len(s) - 1)

RECURSIVE CollapseQuotes(_)
CollapseQuotes(s) ==
    IF s = <<>> THEN <<>>
    ELSE IF Len(s) >= 2 /\ s[1] = DQ /\ s[2] = DQ
         THEN <<DQ>> \o CollapseQuotes(SubSeq(s, 3, Len(s)))
         ELSE <<s[1]>> \o CollapseQuotes(Tail(s))

Unescape(s) == CollapseQuotes(StripOuter(s))

InitEscapeVars ==
    /\ escIn \in SeqsUpTo(Alphabet, MaxLen)
    /\ escOut = <<>>
    /\ escDone = FALSE

IdleEscapeVars ==
    /\ escIn = <<>>
    /\ escOut = <<>>
    /\ escDone = FALSE

EscapeCall ==
    /\ ~escDone
    /\ escOut' = escapeSqlIdentifier(escIn)
    /\ escDone' = TRUE
    /\ UNCHANGED <<escIn, redVars, chanVars, suVars, tyVars>>

(***************************************************************************)
(* reduceTypeRows.  A MappableType is a Scalar (in the code the bare type  *)
(* name), an Enum {name, enumValues} or an Array {name, elementType}.      *)
(***************************************************************************)
DatabaseTypeKindEnum == "e"
TypeCategoryARRAY == "A"

\* A string used as a condition: undefined and the empty string are falsy.
Truthy(str) == str \notin {Undef, ""}

Scalar(name) == [kind |-> "scalar", name |-> name]
EnumType(name, labels) == [kind |-> "enum", name |-> name, enumValues |-> labels]
ArrayType(name, elem) == [kind |-> "array", name |-> name, elementType |-> elem]

isEnum(typ) == typ.kind = "enum"

Partial_Overwrite(typeMap, row) == Scalar(row.typeName)
\* typeMap[oid] ?? typeName
Partial(typeMap, row) ==
    IF row.oid \in DOMAIN typeMap THEN typeMap[row.oid] ELSE Scalar(row.typeName)

IsEnumRow_All(r) == TRUE
IsEnumRow(r) == r.typeKind = DatabaseTypeKindEnum

EnumStep_Prepend(typeMap, row) ==
    LET typ == Partial(typeMap, row)
    IN Put(typeMap, row.oid,
           EnumType(row.typeName,
                    <<row.enumLabel>> \o (IF isEnum(typ) THEN typ.enumValues ELSE <<>>)))
EnumStep(typeMap, row) ==
    LET typ == Partial(typeMap, row)
    IN Put(typeMap, row.oid,
           EnumType(row.typeName,
                    (IF isEnum(typ) THEN typ.enumValues ELSE <<>>) \o <<row.enumLabel>>))

RECURSIVE EnumReduce(_, _)
\* .reduce((typeMap, {oid, typeName, enumLabel}) => ..., {}) of pass 1
EnumReduce(typeMap, rows) ==
    IF rows = <<>> THEN typeMap
    ELSE EnumReduce(EnumStep(typeMap, Head(rows)), Tail(rows))

\* typeRows.filter((r) => r.typeKind === DatabaseTypeKind.Enum).reduce(...)
EnumTypes(typeRows) == EnumReduce(EmptyObj, SelectSeq(typeRows, IsEnumRow))

TypeStep_ElementFromTypeMap(enumTypes, typeMap, row) ==
    LET typ == Partial(typeMap, row)
    IN IF row.oid \in DOMAIN enumTypes
       THEN Put(typeMap, row.oid, enumTypes[row.oid])
       ELSE IF /\ row.typeCategory = TypeCategoryARRAY
               /\ Truthy(row.elementTypeOid)
               /\ row.elementTypeOid \in DOMAIN typeMap
            THEN Put(typeMap, row.oid,
                     ArrayType(row.typeName, typeMap[row.elementTypeOid]))
            ELSE Put(typeMap, row.oid, typ)
TypeStep(enumTypes, typeMap, row) ==
    LET typ == Partial(typeMap, row)
    IN IF row.oid \in DOMAIN enumTypes
       THEN Put(typeMap, row.oid, enumTypes[row.oid])
       ELSE IF /\ row.typeCategory = TypeCategoryARRAY
               /\ Truthy(row.elementTypeOid)
               /\ row.elementTypeOid \in DOMAIN enumTypes
            THEN Put(typeMap, row.oid,
                     ArrayType(row.typeName, enumTypes[row.elementTypeOid]))
            ELSE Put(typeMap, row.oid, typ)

RECURSIVE TypeReduce(_, _, _)
\* typeRows.reduce((typeMap, {oid, typeName, typeCategory, elementTypeOid}) => ..., {})
TypeReduce(enumTypes, typeMap, rows) ==
    IF rows = <<>> THEN typeMap
    ELSE TypeReduce(enumTypes, TypeStep(enumTypes, typeMap, Head(rows)), Tail(rows))

reduceTypeRows(typeRows) == TypeReduce(EnumTypes(typeRows), EmptyObj, typeRows)

\* The rows the aggregation is applied to.  enumLabel, typeCategory and
\* elementTypeOid of a row are read only on the branches that vary them here.
MaxRows == 3
RowOids == {"100", "300"}
EnumRowPool ==
    [oid : RowOids, typeName : {"t"}, typeKind : {DatabaseTypeKindEnum},
     enumLabel : {"a", "b"}, typeCategory : {"E"}, elementTypeOid : {"0"}]
OtherRowPool ==
    [oid : RowOids, typeName : {"t", "u"}, typeKind : {"b"},
     enumLabel : {Undef}, typeCategory : {TypeCategoryARRAY, "S"},
     elementTypeOid : {"0", "100"}]
RowPool == EnumRowPool \cup OtherRowPool

InitReduceVars ==
    /\ redIn \in SeqsUpTo(RowPool, MaxRows)
    /\ redOut = EmptyObj
    /\ redDone = FALSE

IdleReduceVars ==
    /\ redIn = <<>>
    /\ redOut = EmptyObj
    /\ redDone = FALSE

ReduceCall ==
    /\ ~redDone
    /\ redOut' = reduceTypeRows(redIn)
    /\ redDone' = TRUE
    /\ UNCHANGED <<redIn, escVars, chanVars, suVars, tyVars>>

(***************************************************************************)
(* The message channel.  send appends to toServer.  reply(expected...)     *)
(* resolves with the next message of an awaited type; messages of other    *)
(* types that arrive before it are passed over, and an error-response that *)
(* is not awaited rejects the reply (the channel raises a ServerError      *)
(* carrying the server's message).                                         *)
(***************************************************************************)
Min(S) == CHOOSE x \in S : \A y \in S : x <= y

StopAt_First(box, expected) == IF box = <<>> THEN 0 ELSE 1
\* The position in box at which reply(expected...) settles, 0 if it stays
\* suspended.
StopAt(box, expected) ==
    LET hits == {i \in 1..Len(box) : box[i].type \in expected \cup {"errorResponse"}}
    IN IF hits = {} THEN 0 ELSE Min(hits)

ReplyReady(box, expected) == StopAt(box, expected) > 0
ReplyMsg(box, expected) == box[StopAt(box, expected)]
ReplyRest(box, expected) == SubSeq(box, StopAt(box, expected) + 1, Len(box))
\* The reply is rejected: the message is an error-response nobody awaited.
ReplyThrows(box, expected) ==
    /\ ReplyMsg(box, expected).type = "errorResponse"
    /\ "errorResponse" \notin expected

IdleChanVars ==
    /\ toServer = <<>>
    /\ inbox = <<>>
    /\ sentLog = <<>>

(***************************************************************************)
(* startup                                                                 *)
(***************************************************************************)
MaxPostAuth == 2
User == "user"
Passwords == {Undef, "", "secret"}
Salts == {"salt1"}
Nonces == {"n1", "n2"}
Challenges == {"ch1"}
MechanismLists == {<<"SCRAM-SHA-256">>, <<"SCRAM-SHA-256-PLUS">>,
                   <<"SCRAM-SHA-256-PLUS", "SCRAM-SHA-256">>}
AuthRequests == {"authenticationCleartextPassword", "authenticationMD5Password",
                 "authenticationSASL"}

NoSession == [clientNonce |-> Undef, SASLData |-> Undef,
              calculatedServerSignature |-> <<>>, finalSASL |-> [type |-> Undef]]

\* crypto.createHash('md5').update(a).update(b).digest('hex')
Md5Hex(parts) == <<"md5hex", parts>>
generateHash(username, password, salt) ==
    <<"md5", Md5Hex(<<Md5Hex(<<password, username>>), salt>>)>>

\* sasl-helpers: the signature the server must present for this password,
\* client nonce and server challenge.
ServerSignature(password, clientNonce, SASLData) ==
    <<"v", password, clientNonce, SASLData>>
createInitialSASLResponse(clientNonce) ==
    [clientNonce |-> clientNonce, response |-> <<"n", clientNonce>>]
createClientSASLContinueResponse(password, clientNonce, SASLData) ==
    [response |-> <<"p", password, clientNonce, SASLData>>,
     calculatedServerSignature |-> ServerSignature(password, clientNonce, SASLData)]
\* TRUE when the check passes, FALSE when it throws.
checkServerFinalMessage(serverData, calculatedServerSignature) ==
    serverData = calculatedServerSignature

\* !options.password
PasswordMissing_Never(password) == FALSE
PasswordMissing(password) == password \in {Undef, ""}

ScramNotOffered_Never(mechanisms) == FALSE
\* result.SASLMechanisms?.indexOf('SCRAM-SHA-256') === -1
ScramNotOffered(mechanisms) == "SCRAM-SHA-256" \notin Range(mechanisms)

\* Lines 107-112: what startup does once the drain loop has seen
\* ready-for-query.
SaslVerdict_NoCheck(finalSASL, calculated) ==
    IF "SASLData" \in DOMAIN finalSASL THEN "return" ELSE "throw"
SaslVerdict(finalSASL, calculated) ==
    IF "SASLData" \in DOMAIN finalSASL
    THEN (IF checkServerFinalMessage(finalSASL.SASLData, calculated)
          THEN "return" ELSE "throw")
    ELSE "throw"

Send(msgs) ==
    /\ toServer' = toServer \o msgs
    /\ sentLog' = sentLog \o msgs

\* catch (e) { console.error(...); process.exit(1) }
SuFail ==
    /\ suOutcome' = "Failed"
    /\ suPc' = "exited"

InitStartupVars ==
    /\ suPassword \in Passwords
    /\ suPc = "start"
    /\ suOutcome = "running"
    /\ suFirst = Undef
    /\ saslSession = NoSession
    /\ suSrv = [phase |-> "await_startup", postAuth |-> 0, nonce |-> Undef]
    /\ IdleChanVars

IdleStartupVars ==
    /\ suPassword = Undef
    /\ suPc = "exited"
    /\ suOutcome = "running"
    /\ suFirst = Undef
    /\ saslSession = NoSession
    /\ suSrv = [phase |-> "closed", postAuth |-> 0, nonce |-> Undef]

\* await queue.connect(options); await queue.send(messages.startupMessage, ...)
SuConnect ==
    /\ suPc = "start"
    /\ \/ /\ Send(<<[type |-> "startupMessage", user |-> User]>>)
          /\ suPc' = "first_reply"
          /\ UNCHANGED suOutcome
       \/ \* the connection cannot be established
          /\ SuFail
          /\ UNCHANGED <<toServer, sentLog>>
    /\ UNCHANGED <<inbox, suPassword, suFirst, saslSession, suSrv, escVars, redVars, tyVars>>

SuFirstExpected == {"readyForQuery"} \cup AuthRequests

\* Lines 49-91 and 114-119: the first reply and what startup sends next.
SuFirstReply ==
    /\ suPc = "first_reply"
    /\ ReplyReady(inbox, SuFirstExpected)
    /\ LET result == ReplyMsg(inbox, SuFirstExpected) IN
       /\ inbox' = ReplyRest(inbox, SuFirstExpected)
       /\ suFirst' = result.type
       /\ IF ReplyThrows(inbox, SuFirstExpected)
          THEN SuFail /\ UNCHANGED <<toServer, sentLog, saslSession>>
          ELSE IF result.type = "readyForQuery"
          THEN \* No auth required
               /\ suOutcome' = "NoAuthRequired"
               /\ suPc' = "exited"
               /\ UNCHANGED <<toServer, sentLog, saslSession>>
          ELSE IF PasswordMissing(suPassword)
          THEN SuFail /\ UNCHANGED <<toServer, sentLog, saslSession>>
          ELSE IF result.type = "authenticationSASL"
          THEN IF ScramNotOffered(result.SASLMechanisms)
               THEN SuFail /\ UNCHANGED <<toServer, sentLog, saslSession>>
               ELSE \E nonce \in Nonces :
                        LET init == createInitialSASLResponse(nonce) IN
                        /\ Send(<<[type |-> "SASLInitialResponse",
                                   mechanism |-> "SCRAM-SHA-256",
                                   response |-> init.response]>>)
                        /\ saslSession' = [saslSession EXCEPT !.clientNonce = init.clientNonce]
                        /\ suPc' = "sasl_continue"
                        /\ UNCHANGED suOutcome
          ELSE /\ Send(<<[type |-> "passwordMessage",
                         password |-> IF result.type = "authenticationMD5Password"
                                      THEN generateHash(User, suPassword, result.salt)
                                      ELSE suPassword]>>)
               /\ suPc' = "auth_ok"
               /\ UNCHANGED <<suOutcome, saslSession>>
    /\ UNCHANGED <<suPassword, suSrv, escVars, redVars, tyVars>>

\* Lines 78-91
SuSaslContinueReply ==
    /\ suPc = "sasl_continue"
    /\ ReplyReady(inbox, {"AuthenticationSASLContinue"})
    /\ LET res == ReplyMsg(inbox, {"AuthenticationSASLContinue"}) IN
       /\ inbox' = ReplyRest(inbox, {"AuthenticationSASLContinue"})
       /\ IF ReplyThrows(inbox, {"AuthenticationSASLContinue"})
          THEN SuFail /\ UNCHANGED <<toServer, sentLog, saslSession>>
          ELSE LET cont == createClientSASLContinueResponse(
                               suPassword, saslSession.clientNonce, res.SASLData) IN
               /\ Send(<<[type |-> "SASLResponse", response |-> cont.response]>>)
               /\ saslSession' = [saslSession EXCEPT
                                    !.SASLData = res.SASLData,
                                    !.calculatedServerSignature = cont.calculatedServerSignature]
               /\ suPc' = "sasl_final"
               /\ UNCHANGED suOutcome
    /\ UNCHANGED <<suPassword, suFirst, suSrv, escVars, redVars, tyVars>>

\* Line 93
SuSaslFinalReply ==
    /\ suPc = "sasl_final"
    /\ ReplyReady(inbox, {"authenticationSASLFinal"})
    /\ LET res == ReplyMsg(inbox, {"authenticationSASLFinal"}) IN
       /\ inbox' = ReplyRest(inbox, {"authenticationSASLFinal"})
       /\ IF ReplyThrows(inbox, {"authenticationSASLFinal"})
          THEN SuFail /\ UNCHANGED saslSession
          ELSE /\ saslSession' = [saslSession EXCEPT !.finalSASL = res]
               /\ suPc' = "sasl_ok"
               /\ UNCHANGED suOutcome
    /\ UNCHANGED <<toServer, sentLog, suPassword, suFirst, suSrv, escVars, redVars, tyVars>>

\* Line 94 (SASL) and line 120 (cleartext, MD5)
SuAuthOkReply ==
    /\ suPc \in {"sasl_ok", "auth_ok"}
    /\ ReplyReady(inbox, {"authenticationOk"})
    /\ inbox' = ReplyRest(inbox, {"authenticationOk"})
    /\ IF ReplyThrows(inbox, {"authenticationOk"})
       THEN SuFail
       ELSE /\ suPc' = (IF suPc = "sasl_ok" THEN "drain" ELSE "ready")
            /\ UNCHANGED suOutcome
    /\ UNCHANGED <<toServer, sentLog, suPassword, suFirst, saslSession, suSrv,
                   escVars, redVars, tyVars>>

SuDrainExpected_NoReady == {"parameterStatus", "backendKeyData"}
SuDrainExpected == {"parameterStatus", "backendKeyData", "readyForQuery"}

\* Lines 95-112: the drain loop, then the check of the server's signature.
SuDrainReply ==
    /\ suPc = "drain"
    /\ ReplyReady(inbox, SuDrainExpected)
    /\ LET res == ReplyMsg(inbox, SuDrainExpected) IN
       /\ inbox' = ReplyRest(inbox, SuDrainExpected)
       /\ IF ReplyThrows(inbox, SuDrainExpected)
          THEN SuFail
          ELSE IF res.type = "readyForQuery"
          THEN IF SaslVerdict(saslSession.finalSASL,
                              saslSession.calculatedServerSignature) = "return"
               THEN suOutcome' = "Completed" /\ suPc' = "exited"
               ELSE SuFail
          ELSE UNCHANGED <<suPc, suOutcome>>
    /\ UNCHANGED <<toServer, sentLog, suPassword, suFirst, saslSession, suSrv,
                   escVars, redVars, tyVars>>

\* Line 121
SuReadyReply ==
    /\ suPc = "ready"
    /\ ReplyReady(inbox, {"readyForQuery"})
    /\ inbox' = ReplyRest(inbox, {"readyForQuery"})
    /\ IF ReplyThrows(inbox, {"readyForQuery"})
       THEN SuFail
       ELSE suOutcome' = "Completed" /\ suPc' = "exited"
    /\ UNCHANGED <<toServer, sentLog, suPassword, suFirst, saslSession, suSrv,
                   escVars, redVars, tyVars>>

\* The channel fails while startup awaits a reply.
SuChannelFail ==
    /\ suPc \notin {"start", "exited"}
    /\ SuFail
    /\ UNCHANGED <<chanVars, suPassword, suFirst, saslSession, suSrv, escVars, redVars, tyVars>>

(***************************************************************************)
(* The server's side of the handshake.                                     *)
(***************************************************************************)
SuSrvTake(type) ==
    /\ toServer # <<>>
    /\ Head(toServer).type = type
    /\ toServer' = Tail(toServer)

SuSrvFrame == UNCHANGED <<sentLog, suPassword, suPc, suOutcome, suFirst, saslSession,
                          escVars, redVars, tyVars>>

SuSrvStartup ==
    /\ suSrv.phase = "await_startup"
    /\ SuSrvTake("startupMessage")
    /\ \/ /\ inbox' = inbox \o <<[type |-> "authenticationOk"]>>
          /\ suSrv' = [suSrv EXCEPT !.phase = "post_auth"]
       \/ /\ inbox' = inbox \o <<[type |-> "authenticationCleartextPassword"]>>
          /\ suSrv' = [suSrv EXCEPT !.phase = "await_password"]
       \/ \E salt \in Salts :
          /\ inbox' = inbox \o <<[type |-> "authenticationMD5Password", salt |-> salt]>>
          /\ suSrv' = [suSrv EXCEPT !.phase = "await_password"]
       \/ \E mechs \in MechanismLists :
          /\ inbox' = inbox \o <<[type |-> "authenticationSASL", SASLMechanisms |-> mechs]>>
          /\ suSrv' = [suSrv EXCEPT !.phase = "await_sasl_initial"]
    /\ SuSrvFrame

SuSrvReject ==
    /\ inbox' = inbox \o <<[type |-> "errorResponse",
                            fields |-> [R |-> "auth_failed", M |-> "authentication failed",
                                        H |-> Undef, P |-> Undef]]>>
    /\ suSrv' = [suSrv EXCEPT !.phase = "closed"]

SuSrvPassword ==
    /\ suSrv.phase = "await_password"
    /\ SuSrvTake("passwordMessage")
    /\ \/ /\ inbox' = inbox \o <<[type |-> "authenticationOk"]>>
          /\ suSrv' = [suSrv EXCEPT !.phase = "post_auth"]
       \/ SuSrvReject
    /\ SuSrvFrame

SuSrvSaslInitial ==
    /\ suSrv.phase = "await_sasl_initial"
    /\ SuSrvTake("SASLInitialResponse")
    /\ \E ch \in Challenges :
       /\ inbox' = inbox \o <<[type |-> "AuthenticationSASLContinue", SASLData |-> ch]>>
       /\ suSrv' = [suSrv EXCEPT !.phase = "await_sasl_response",
                                 !.nonce = <<Head(toServer).response[2], ch>>]
    /\ SuSrvFrame

\* The final message of a server that holds the password, of one that does
\* not, and one that carries no data.
SaslFinals(nonce) ==
    {[type |-> "authenticationSASLFinal",
      SASLData |-> ServerSignature(pw, nonce[1], nonce[2])] : pw \in {"secret", "forged"}}
    \cup {[type |-> "authenticationSASLFinal"]}

SuSrvSaslResponse ==
    /\ suSrv.phase = "await_sasl_response"
    /\ SuSrvTake("SASLResponse")
    /\ \/ \E final \in SaslFinals(suSrv.nonce) :
          /\ inbox' = inbox \o <<final, [type |-> "authenticationOk"]>>
          /\ suSrv' = [suSrv EXCEPT !.phase = "post_auth"]
       \/ SuSrvReject
    /\ SuSrvFrame

\* After authentication-ok: parameter-status and backend-key-data in any order
SuSrvPostAuth ==
    /\ suSrv.phase = "post_auth"
    /\ suSrv.postAuth < MaxPostAuth
    /\ \E t \in {"parameterStatus", "backendKeyData"} :
          inbox' = inbox \o <<[type |-> t]>>
    /\ suSrv' = [suSrv EXCEPT !.postAuth = @ + 1]
    /\ UNCHANGED toServer
    /\ SuSrvFrame

SuSrvReady ==
    /\ suSrv.phase = "post_auth"
    /\ inbox' = inbox \o <<[type |-> "readyForQuery", trxStatus |-> "I"]>>
    /\ suSrv' = [suSrv EXCEPT !.phase = "ready"]
    /\ UNCHANGED toServer
    /\ SuSrvFrame

\* After ready-for-query the server may still report a changed setting.
SuSrvAsync ==
    /\ suSrv.phase = "ready"
    /\ inbox' = inbox \o <<[type |-> "parameterStatus"]>>
    /\ suSrv' = [suSrv EXCEPT !.phase = "done"]
    /\ UNCHANGED toServer
    /\ SuSrvFrame

(***************************************************************************)
(* getTypes: values                                                        *)
(***************************************************************************)
MaxCalls == 2
MaxFaults == 1

\* Decimal text of the numbers that travel as text in query results and SQL.
Numbers == {0, 1, 2, 10, 23, 25, 100, 300}
TextOf(n) ==
    CASE n = 0 -> "0" [] n = 1 -> "1" [] n = 2 -> "2" [] n = 10 -> "10"
      [] n = 23 -> "23" [] n = 25 -> "25" [] n = 100 -> "100" [] n = 300 -> "300"
\* Number(text)
NumberOf(text) == CHOOSE n \in Numbers : TextOf(n) = text

\* A column value on the wire, and c.value.toString()
Buf(text) == [value |-> <<"buf", text>>]
valueToString(value) == value[2]

\* crypto.createHash('md5').update(query).digest('hex'): a string of hex
\* digits, one per query text.
uniqueName(query) == <<"h", query>>

Unset == [unset |-> TRUE]
IsParseError(v) == "errorCode" \in DOMAIN v

\* { errorCode: errorFields.R, hint: errorFields.H, message: errorFields.M,
\*   position: errorFields.P }
ParseErrorOf_Swapped(errorFields) ==
    [errorCode |-> errorFields.M, hint |-> errorFields.H,
     message |-> errorFields.R, position |-> errorFields.P]
ParseErrorOf(errorFields) ==
    [errorCode |-> errorFields.R, hint |-> errorFields.H,
     message |-> errorFields.M, position |-> errorFields.P]

\* { errorCode: '_ERROR', message: e.message }
ExplainFailure_WithHint(e) == [errorCode |-> "_ERROR", message |-> e.message, hint |-> e.message]
ExplainFailure(e) == [errorCode |-> "_ERROR", message |-> e.message]

\* The caller's queries: text and placeholder mapping.
QueryDatas == {[query |-> "q1", mapping |-> <<"id">>],
               [query |-> "q2", mapping |-> <<>>]}

\* TypeField; typeSize, typeModifier and formatCode are never read.
F_id == [name |-> "id", tableOID |-> 10, columnAttrNumber |-> 1, typeOID |-> 23]
F_name == [name |-> "name", tableOID |-> 10, columnAttrNumber |-> 2, typeOID |-> 25]
F_mood == [name |-> "mood", tableOID |-> 0, columnAttrNumber |-> 0, typeOID |-> 100]
F_calc == [name |-> "calc", tableOID |-> 0, columnAttrNumber |-> 0, typeOID |-> 25]

(***************************************************************************)
(* getTypes: the messages each operation sends                             *)
(***************************************************************************)
\* Lines 214-227
ProbeMessages(query, op) ==
    <<[type |-> "parse", name |-> uniqueName(query), query |-> query, op |-> op],
      [type |-> "describe", name |-> uniqueName(query), op |-> op],
      [type |-> "close", name |-> uniqueName(query), op |-> op],
      [type |-> "flush", op |-> op]>>

SyncMessage(op) == [type |-> "sync", op |-> op]

\* Lines 275-280
ExplainParseMessages(query, op) ==
    <<[type |-> "parse", name |-> uniqueName(query), query |-> query, op |-> op],
      [type |-> "flush", op |-> op]>>

\* Lines 330-339
ExplainCleanup_NoSync(query, op) ==
    <<[type |-> "close", name |-> uniqueName(query), op |-> op],
      [type |-> "flush", op |-> op]>>
ExplainCleanup(query, op) ==
    <<[type |-> "close", name |-> uniqueName(query), op |-> op],
      [type |-> "flush", op |-> op],
      SyncMessage(op)>>

QueryMessage(sql, op) == [type |-> "query", query |-> sql, op |-> op]

\* `explain execute ${escapeSqlIdentifier(uniqueName)}${params.length === 0 ?
\* '' : ` (${params.join(', ')})`};` with one 'null' per parameter
ExplainSql(query, typeData) ==
    LET params == [i \in 1..Len(typeData.params) |-> "null"]
    IN [kind |-> "explain",
        ident |-> escapeSqlIdentifier(uniqueName(query)),
        hasArgs |-> Len(params) # 0,
        args |-> params]

\* paramTypeOIDs.concat(returnTypesOIDs)
UsedTypesOIDs(typeData) ==
    [i \in 1..Len(typeData.params) |-> typeData.params[i].oid]
        \o [i \in 1..Len(typeData.fields) |-> typeData.fields[i].typeOID]

\* typeOIDs.length > 0
TypesQueryNeeded_Always(typeOIDs) == TRUE
TypesQueryNeeded(typeOIDs) == Len(typeOIDs) > 0

\* WHERE pt.oid IN (oids) OR pt.oid IN (SELECT typelem ... WHERE ptn.oid IN (oids))
TypesSql(typeOIDs) ==
    [kind |-> "types", oids |-> [i \in 1..Len(typeOIDs) |-> TextOf(typeOIDs[i])]]

IsColumnField_All(f) == TRUE
IsColumnField(f) == f.columnAttrNumber > 0
\* fields.filter((f) => f.columnAttrNumber > 0)
ColumnFields(fields) == SelectSeq(fields, IsColumnField)

\* columnFields.length === 0 is the early return of getComments
CommentsQueryNeeded_Always(fields) == TRUE
CommentsQueryNeeded(fields) == Len(ColumnFields(fields)) # 0

\* (objoid=${f.tableOID} and objsubid=${f.columnAttrNumber}) joined by ' or '
CommentsSql(fields) ==
    LET columnFields == ColumnFields(fields)
    IN [kind |-> "comments",
        matchers |-> [i \in 1..Len(columnFields) |->
                         <<TextOf(columnFields[i].tableOID),
                           TextOf(columnFields[i].columnAttrNumber)>>]]

\* fields.length > 0 ? fields.map(attrMatcher).join(' or ') : false
AttrsSql(fields) ==
    [kind |-> "attrs",
     selectFalse |-> ~(Len(fields) > 0),
     matchers |-> [i \in 1..Len(fields) |->
                      <<TextOf(fields[i].tableOID), TextOf(fields[i].columnAttrNumber)>>]]

\* The first stage, from `stage` on, that sends a query: an empty oid list
\* skips the type-catalog query, no column field skips the comment query.
FirstSending(stage, typeData) ==
    IF stage = "types" /\ TypesQueryNeeded(UsedTypesOIDs(typeData)) THEN "types"
    ELSE IF stage \in {"types", "comments"} /\ CommentsQueryNeeded(typeData.fields)
         THEN "comments"
         ELSE "attrs"

StageSql(stage, typeData) ==
    CASE stage = "types" -> TypesSql(UsedTypesOIDs(typeData))
      [] stage = "comments" -> CommentsSql(typeData.fields)
      [] stage = "attrs" -> AttrsSql(typeData.fields)

(***************************************************************************)
(* getTypes: what it makes of the rows                                     *)
(***************************************************************************)
\* result.columns.map((c) => c.value.toString())
RowText(columns) == [i \in 1..Len(columns) |-> valueToString(columns[i].value)]

\* explain.map((e) => e[0])
PlanLines(explain) == [i \in 1..Len(explain) |-> explain[i][1]]

\* rows.map(([oid, typeName, typeKind, enumLabel, elementTypeOid,
\* typeCategory]) => ({...}))
TypeRowOf(row) ==
    [oid |-> row[1], typeName |-> row[2], typeKind |-> row[3], enumLabel |-> row[4],
     elementTypeOid |-> row[5], typeCategory |-> row[6]]
TypeRowsOf(rows) == [i \in 1..Len(rows) |-> TypeRowOf(rows[i])]

\* descriptionRows.map((row) => ({tableOID: Number(row[0]), ...}))
CommentRowsOf(rows) ==
    [i \in 1..Len(rows) |->
        [tableOID |-> NumberOf(rows[i][1]), columnAttrNumber |-> NumberOf(rows[i][2]),
         comment |-> rows[i][3]]]

\* `${col.tableOID}:${col.columnAttrNumber}`
getAttid(col) == <<TextOf(col.tableOID), ":", TextOf(col.columnAttrNumber)>>

\* nullable: attnotnull !== 't'
NullableOf_Inverted(attnotnull) == attnotnull = "t"
NullableOf(attnotnull) == attnotnull # "t"

RECURSIVE AttrMapOf(_, _)
\* attributeRows.reduce((acc, [attid, attname, attnotnull]) => ({...acc,
\* [attid]: {columnName: attname, nullable: attnotnull !== 't'}}), {})
AttrMapOf(acc, rows) ==
    IF rows = <<>> THEN acc
    ELSE AttrMapOf(Put(acc, Head(rows)[1],
                       [columnName |-> Head(rows)[2],
                        nullable |-> NullableOf(Head(rows)[3])]),
                   Tail(rows))

RECURSIVE CommentMapOf(_, _)
\* for (const c of commentRows) commentMap[`${c.tableOID}:${c.columnAttrNumber}`] = c.comment
CommentMapOf(acc, rows) ==
    IF rows = <<>> THEN acc
    ELSE CommentMapOf(Put(acc, getAttid(Head(rows)), Head(rows).comment), Tail(rows))

NoType == [kind |-> Undef]
\* typeMap[oid], the number used as a property key
TypeOfOid(typeMap, oid) ==
    IF TextOf(oid) \in DOMAIN typeMap THEN typeMap[TextOf(oid)] ELSE NoType

\* Lines 552-557: one returnTypes entry
ReturnTypeOf(f, attrMap, commentMap, typeMap) ==
    (IF getAttid(f) \in DOMAIN attrMap THEN attrMap[getAttid(f)] ELSE EmptyObj)
    @@ (IF getAttid(f) \in DOMAIN commentMap /\ Truthy(commentMap[getAttid(f)])
        THEN [comment |-> commentMap[getAttid(f)]] ELSE EmptyObj)
    @@ [returnName |-> f.name, type |-> TypeOfOid(typeMap, f.typeOID)]

\* Lines 509-564
Assemble(queryData, typeData, typeRows, commentRows, attributeRows) ==
    LET typeMap == reduceTypeRows(typeRows)
        attrMap == AttrMapOf(EmptyObj, attributeRows)
        commentMap == CommentMapOf(EmptyObj, commentRows)
    IN [paramMetadata |->
            [params |-> [i \in 1..Len(typeData.params) |->
                            TypeOfOid(typeMap, typeData.params[i].oid)],
             mapping |-> queryData.mapping],
        returnTypes |-> [i \in 1..Len(typeData.fields) |->
                            ReturnTypeOf(typeData.fields[i], attrMap, commentMap, typeMap)]]

(***************************************************************************)
(* getTypes: the call frame and its continuations.  A continuation is a    *)
(* record [c, send]: the frame after the step and the messages the step    *)
(* sends.                                                                  *)
(***************************************************************************)
\* The operations of one getTypes call, numbered so that every message can
\* be traced to the operation that sent or caused it.
OpIndex(stage) ==
    CASE stage = "probe" -> 1 [] stage = "explain" -> 2 [] stage = "explainQuery" -> 3
      [] stage = "types" -> 4 [] stage = "comments" -> 5 [] stage = "attrs" -> 6
OpOf(calls, stage) == calls * 10 + OpIndex(stage)

IdleFrame ==
    [pc |-> "idle", calls |-> 0, op |-> 0, exOp |-> 0, exBranch |-> "none",
     queryData |-> [query |-> Undef, mapping |-> <<>>],
     tdParams |-> <<>>, typeData |-> Unset, testRunResult |-> Unset,
     pending |-> Unset, rqCaller |-> "none", resultRows |-> <<>>,
     typeRows |-> <<>>, commentRows |-> <<>>, attributeRows |-> <<>>,
     outcome |-> [kind |-> "none"]]

NewFrame(calls, queryData) ==
    [IdleFrame EXCEPT !.pc = "td_parse", !.calls = calls, !.op = OpOf(calls, "probe"),
                      !.queryData = queryData]

ServerError(msg) == [type |-> "ServerError", message |-> msg.fields.M]
ChannelError == [type |-> "ChannelError", message |-> "channel failed"]

Returned(c, value) ==
    [c EXCEPT !.pc = "idle", !.outcome = [kind |-> "returned", value |-> value]]
Threw(c, e) ==
    [c EXCEPT !.pc = "idle", !.outcome = [kind |-> "threw", error |-> e]]

\* runTypesCatalogQuery, getComments and the attribute query, from `from` on:
\* the first of them that sends its query through runQuery (lines 507-527).
StageStart(c, from) ==
    LET stage == FirstSending(from, c.typeData)
        op == OpOf(c.calls, stage)
    IN [c |-> [c EXCEPT !.pc = "rq_rowdesc", !.rqCaller = stage, !.op = op,
                        !.resultRows = <<>>],
        send |-> <<QueryMessage(StageSql(stage, c.typeData), op)>>]

\* Lines 496-507: if (testRunResult && 'errorCode' in testRunResult) return it
GetTypesAfterExplain_NoShortCircuit(c, testRunResult) ==
    StageStart([c EXCEPT !.testRunResult = testRunResult], "types")
GetTypesAfterExplain(c, testRunResult) ==
    IF IsParseError(testRunResult)
    THEN [c |-> Returned([c EXCEPT !.testRunResult = testRunResult], testRunResult),
          send |-> <<>>]
    ELSE StageStart([c EXCEPT !.testRunResult = testRunResult], "types")

\* Lines 272-284: explainQuery up to its first await of a reply
ExplainStart(c, typeData) ==
    IF IsParseError(typeData)
    THEN GetTypesAfterExplain(c, typeData)
    ELSE LET op == OpOf(c.calls, "explain")
         IN [c |-> [c EXCEPT !.pc = "ex_parse", !.op = op, !.exOp = op],
             send |-> ExplainParseMessages(c.queryData.query, op)]

\* Lines 490-500: if ('errorCode' in typeData) return typeData, else explain
GetTypesAfterProbe(c, typeData) ==
    IF IsParseError(typeData)
    THEN [c |-> Returned([c EXCEPT !.typeData = typeData], typeData), send |-> <<>>]
    ELSE ExplainStart([c EXCEPT !.typeData = typeData], typeData)

Then(r, first) == [r EXCEPT !.send = first \o @]

\* Lines 229-246: the reply to the parse, the recovery sync, the error case
ProbeParsed(c, parseResult) ==
    IF "fields" \in DOMAIN parseResult
    THEN Then(GetTypesAfterProbe(c, ParseErrorOf(parseResult.fields)),
              <<SyncMessage(c.op)>>)
    ELSE [c |-> [c EXCEPT !.pc = "td_params"], send |-> <<SyncMessage(c.op)>>]

\* Lines 328-341, entered with the value the try or the catch returns
ExplainFinally(c, result, branch) ==
    [c |-> [c EXCEPT !.pc = "ex_close", !.pending = result, !.op = c.exOp,
                     !.exBranch = branch],
     send |-> ExplainCleanup(c.queryData.query, c.exOp)]

\* Lines 285-308: the reply to explainQuery's parse
ExplainParsed(c, parseResult) ==
    IF "fields" \in DOMAIN parseResult
    THEN ExplainFinally(c, ParseErrorOf(parseResult.fields), "parse_error")
    ELSE LET op == OpOf(c.calls, "explainQuery")
         IN [c |-> [c EXCEPT !.pc = "rq_rowdesc", !.rqCaller = "explain", !.op = op,
                             !.resultRows = <<>>],
             send |-> <<QueryMessage(ExplainSql(c.queryData.query, c.typeData), op)>>]

\* runQuery returns resultRows to its caller
RqReturn(c, rows) ==
    CASE c.rqCaller = "explain" ->
            ExplainFinally(c, [plan |-> PlanLines(rows)], "ok")
      [] c.rqCaller = "types" ->
            StageStart([c EXCEPT !.typeRows = TypeRowsOf(rows)], "comments")
      [] c.rqCaller = "comments" ->
            StageStart([c EXCEPT !.commentRows = CommentRowsOf(rows)], "attrs")
      [] c.rqCaller = "attrs" ->
            [c |-> Returned([c EXCEPT !.attributeRows = rows],
                            Assemble(c.queryData, c.typeData, c.typeRows,
                                     c.commentRows, rows)),
             send |-> <<>>]

\* An await inside runQuery throws: explainQuery catches it (lines 311-327),
\* the other callers let it through.
RqThrow_Uncaught(c, e) == [c |-> Threw(c, e), send |-> <<>>]
RqThrow(c, e) ==
    IF c.rqCaller = "explain"
    THEN ExplainFinally(c, ExplainFailure(e), "raised")
    ELSE [c |-> Threw(c, e), send |-> <<>>]

\* What a rejected reply does at each position.
Rejects(c, e) ==
    IF c.pc \in {"rq_rowdesc", "rq_rows"} THEN RqThrow(c, e)
    ELSE [c |-> Threw(c, e), send |-> <<>>]

NoFields == [R |-> Undef, M |-> Undef, H |-> Undef, P |-> Undef]

InitTypesVars ==
    /\ cl = IdleFrame
    /\ srv = [latched |-> FALSE, stmts |-> {}, out |-> <<>>]
    /\ hist = [faults |-> 0, prevProbeErr |-> FALSE, prevQuery |-> Undef,
               foreign |-> FALSE, parseErr |-> NoFields, queryErr |-> NoFields]
    /\ IdleChanVars

IdleTypesVars ==
    /\ cl = IdleFrame
    /\ srv = [latched |-> FALSE, stmts |-> {}, out |-> <<>>]
    /\ hist = [faults |-> 0, prevProbeErr |-> FALSE, prevQuery |-> Undef,
               foreign |-> FALSE, parseErr |-> NoFields, queryErr |-> NoFields]

TyClientFrame == UNCHANGED <<srv, suVars, escVars, redVars>>

\* getTypes(queryData, queue) is called: getTypeData sends its four messages.
GetTypesCall ==
    /\ cl.pc = "idle"
    /\ cl.calls < MaxCalls
    /\ \E qd \in QueryDatas :
          LET c == NewFrame(cl.calls + 1, qd) IN
          /\ cl' = c
          /\ toServer' = toServer \o ProbeMessages(qd.query, c.op)
          /\ sentLog' = ProbeMessages(qd.query, c.op)
    /\ hist' = [hist EXCEPT
                  !.prevProbeErr = (cl.outcome.kind = "returned" /\ IsParseError(cl.typeData)),
                  !.prevQuery = cl.queryData.query,
                  !.foreign = FALSE]
    /\ UNCHANGED inbox
    /\ TyClientFrame

\* The reply at position cl.pc settled on msg; r is the continuation.
Settle(expected, r) ==
    /\ inbox' = ReplyRest(inbox, expected)
    /\ cl' = r.c
    /\ toServer' = toServer \o r.send
    /\ sentLog' = sentLog \o r.send
    /\ hist' = [hist EXCEPT !.foreign = @ \/ ReplyMsg(inbox, expected).op # cl.op]
    /\ TyClientFrame

TdParseExpected == {"errorResponse", "parseComplete"}
TdParamsExpected == {"parameterDescription", "noData"}
TdFieldsExpected == {"rowDescription", "noData"}
CloseExpected == {"closeComplete"}
RqRowDescExpected == {"rowDescription"}
RqRowsExpected_NoComplete == {"dataRow"}
RqRowsExpected == {"dataRow", "commandComplete"}

\* Lines 229-246
TdParseReply ==
    /\ cl.pc = "td_parse"
    /\ ReplyReady(inbox, TdParseExpected)
    /\ Settle(TdParseExpected, ProbeParsed(cl, ReplyMsg(inbox, TdParseExpected)))

\* Lines 247-251
TdParamsReply ==
    /\ cl.pc = "td_params"
    /\ ReplyReady(inbox, TdParamsExpected)
    /\ LET paramsResult == ReplyMsg(inbox, TdParamsExpected) IN
       Settle(TdParamsExpected,
              IF ReplyThrows(inbox, TdParamsExpected)
              THEN Rejects(cl, ServerError(paramsResult))
              ELSE [c |-> [cl EXCEPT !.pc = "td_fields",
                                     !.tdParams = IF "params" \in DOMAIN paramsResult
                                                  THEN paramsResult.params ELSE <<>>],
                    send |-> <<>>])

\* Lines 252-256
TdFieldsReply ==
    /\ cl.pc = "td_fields"
    /\ ReplyReady(inbox, TdFieldsExpected)
    /\ LET fieldsResult == ReplyMsg(inbox, TdFieldsExpected) IN
       Settle(TdFieldsExpected,
              IF ReplyThrows(inbox, TdFieldsExpected)
              THEN Rejects(cl, ServerError(fieldsResult))
              ELSE [c |-> [cl EXCEPT !.pc = "td_close",
                                     !.typeData = [params |-> cl.tdParams,
                                                   fields |-> IF "fields" \in DOMAIN fieldsResult
                                                              THEN fieldsResult.fields
                                                              ELSE <<>>]],
                    send |-> <<>>])

\* Lines 257-258, then getTypes goes on to explainQuery
TdCloseReply ==
    /\ cl.pc = "td_close"
    /\ ReplyReady(inbox, CloseExpected)
    /\ Settle(CloseExpected,
              IF ReplyThrows(inbox, CloseExpected)
              THEN Rejects(cl, ServerError(ReplyMsg(inbox, CloseExpected)))
              ELSE GetTypesAfterProbe(cl, cl.typeData))

\* Lines 281-308
ExParseReply ==
    /\ cl.pc = "ex_parse"
    /\ ReplyReady(inbox, TdParseExpected)
    /\ Settle(TdParseExpected, ExplainParsed(cl, ReplyMsg(inbox, TdParseExpected)))

\* Lines 134-139
RqRowDescReply ==
    /\ cl.pc = "rq_rowdesc"
    /\ ReplyReady(inbox, RqRowDescExpected)
    /\ Settle(RqRowDescExpected,
              IF ReplyThrows(inbox, RqRowDescExpected)
              THEN Rejects(cl, ServerError(ReplyMsg(inbox, RqRowDescExpected)))
              ELSE [c |-> [cl EXCEPT !.pc = "rq_rows"], send |-> <<>>])

\* Lines 141-154
RqRowsReply ==
    /\ cl.pc = "rq_rows"
    /\ ReplyReady(inbox, RqRowsExpected)
    /\ LET result == ReplyMsg(inbox, RqRowsExpected) IN
       Settle(RqRowsExpected,
              IF ReplyThrows(inbox, RqRowsExpected)
              THEN Rejects(cl, ServerError(result))
              ELSE IF "commandTag" \in DOMAIN result
              THEN RqReturn(cl, cl.resultRows)
              ELSE [c |-> [cl EXCEPT !.resultRows = Append(@, RowText(result.columns))],
                    send |-> <<>>])

\* Line 340, then explainQuery returns what the try or the catch returned
ExCloseReply ==
    /\ cl.pc = "ex_close"
    /\ ReplyReady(inbox, CloseExpected)
    /\ Settle(CloseExpected,
              IF ReplyThrows(inbox, CloseExpected)
              THEN Rejects(cl, ServerError(ReplyMsg(inbox, CloseExpected)))
              ELSE GetTypesAfterExplain(cl, cl.pending))

\* The channel fails while a reply is awaited: the await throws.
ChannelFail ==
    /\ cl.pc # "idle"
    /\ hist.faults < MaxFaults
    /\ LET r == Rejects(cl, ChannelError) IN
       /\ cl' = r.c
       /\ toServer' = toServer \o r.send
       /\ sentLog' = sentLog \o r.send
    /\ hist' = [hist EXCEPT !.faults = @ + 1]
    /\ UNCHANGED inbox
    /\ TyClientFrame

(***************************************************************************)
(* The server after the handshake.  In the extended-query protocol an      *)
(* error makes it discard every message up to the next sync; replies wait  *)
(* in srv.out until a flush, a sync, an error or the end of a simple       *)
(* query.  A sync and a simple query end with ready-for-query.             *)
(***************************************************************************)
ParseErrors ==
    {[R |-> "scanner_yyerror", M |-> "syntax error", H |-> Undef, P |-> "8"],
     [R |-> "parserOpenTable", M |-> "relation does not exist", H |-> "check the name",
      P |-> Undef]}
DuplicateStatement ==
    [R |-> "StorePreparedStatement", M |-> "prepared statement already exists",
     H |-> Undef, P |-> Undef]
NoStatement ==
    [R |-> "FetchPreparedStatement", M |-> "prepared statement does not exist",
     H |-> Undef, P |-> Undef]
DescribeError ==
    [R |-> "RevalidateCachedQuery", M |-> "cached plan must not change result type",
     H |-> Undef, P |-> Undef]
QueryErrors ==
    {[R |-> "aclcheck_error", M |-> "permission denied for table", H |-> Undef, P |-> Undef]}

\* What describe-statement can answer.
DescribeAnswers ==
    {[params |-> <<>>, fields |-> <<>>],
     [params |-> <<[oid |-> 23]>>, fields |-> <<F_id, F_name>>],
     [params |-> <<>>, fields |-> <<F_mood>>],
     [params |-> <<[oid |-> 300]>>, fields |-> <<F_calc, F_name>>]}

\* pg_type left-joined with pg_enum: oid, typname, typtype, enumlabel,
\* typelem, typcategory
PgTypeRows ==
    <<<<"23", "int4", "b", "", "0", "N">>,
      <<"25", "text", "b", "", "0", "S">>,
      <<"100", "mood", "e", "sad", "0", "E">>,
      <<"100", "mood", "e", "ok", "0", "E">>,
      <<"300", "_mood", "b", "", "100", "A">>>>
\* pg_attribute: attrelid, attnum, attname, attnotnull
PgAttributeRows ==
    <<<<"10", "1", "id", "t">>, <<"10", "2", "name", "f">>>>
\* pg_description: objoid, objsubid, description
PgDescriptionRows ==
    <<<<"10", "2", "the name">>>>
PlanAnswers == {<<<<"Seq Scan">>>>, <<<<"Result">>, <<"  One-Time Filter">>>>}

TypesAnswer(sql) ==
    LET asked == Range(sql.oids)
        elems == {PgTypeRows[i][5] : i \in {j \in 1..Len(PgTypeRows) : PgTypeRows[j][1] \in asked}}
        hit(row) == row[1] \in asked \cup elems
    IN SelectSeq(PgTypeRows, hit)

CommentsAnswer(sql) ==
    LET hit(row) == <<row[1], row[2]>> \in Range(sql.matchers)
    IN SelectSeq(PgDescriptionRows, hit)

AttrsAnswer(sql) ==
    LET hit(row) == ~sql.selectFalse /\ <<row[1], row[2]>> \in Range(sql.matchers)
        rows == SelectSeq(PgAttributeRows, hit)
    IN [i \in 1..Len(rows) |-> <<<<rows[i][1], ":", rows[i][2]>>, rows[i][3], rows[i][4]>>]

\* The rows a query selects; for explain execute, one of the plans.
QueryAnswers(sql) ==
    CASE sql.kind = "explain" -> PlanAnswers
      [] sql.kind = "types" -> {TypesAnswer(sql)}
      [] sql.kind = "comments" -> {CommentsAnswer(sql)}
      [] sql.kind = "attrs" -> {AttrsAnswer(sql)}

QueryResponse(rows, op) ==
    <<[type |-> "rowDescription", fields |-> <<>>, op |-> op]>>
    \o [i \in 1..Len(rows) |->
           [type |-> "dataRow", columns |-> [j \in 1..Len(rows[i]) |-> Buf(rows[i][j])],
            op |-> op]]
    \o <<[type |-> "commandComplete", commandTag |-> "SELECT", op |-> op],
         [type |-> "readyForQuery", trxStatus |-> "I", op |-> op]>>

ErrorResponse(fields, op) == [type |-> "errorResponse", fields |-> fields, op |-> op]

SrvHead(type) ==
    /\ toServer # <<>>
    /\ Head(toServer).type = type
    /\ toServer' = Tail(toServer)

TySrvFrame == UNCHANGED <<sentLog, cl, suVars, escVars, redVars>>

\* An error in the extended-query protocol: sent at once, with what was
\* buffered, and every message up to the next sync will be discarded.
SrvFail(fields, op) ==
    /\ inbox' = inbox \o srv.out \o <<ErrorResponse(fields, op)>>
    /\ srv' = [srv EXCEPT !.latched = TRUE, !.out = <<>>]

SrvReply(msgs) ==
    /\ srv' = [srv EXCEPT !.out = @ \o msgs]
    /\ UNCHANGED inbox

\* Error-latched: every message but sync is discarded.
SrvDiscard ==
    /\ srv.latched
    /\ toServer # <<>>
    /\ Head(toServer).type # "sync"
    /\ toServer' = Tail(toServer)
    /\ UNCHANGED <<inbox, srv, hist>>
    /\ TySrvFrame

SrvParse ==
    /\ ~srv.latched
    /\ SrvHead("parse")
    /\ LET m == Head(toServer) IN
       \/ /\ m.name \in srv.stmts
          /\ SrvFail(DuplicateStatement, m.op)
          /\ hist' = [hist EXCEPT !.parseErr = DuplicateStatement]
       \/ /\ m.name \notin srv.stmts
          /\ srv' = [srv EXCEPT !.stmts = @ \cup {m.name},
                                !.out = Append(@, [type |-> "parseComplete", op |-> m.op])]
          /\ UNCHANGED <<inbox, hist>>
       \/ /\ m.name \notin srv.stmts
          /\ \E fields \in ParseErrors :
                /\ SrvFail(fields, m.op)
                /\ hist' = [hist EXCEPT !.parseErr = fields]
    /\ TySrvFrame

SrvDescribe ==
    /\ ~srv.latched
    /\ SrvHead("describe")
    /\ LET m == Head(toServer) IN
       \/ /\ m.name \in srv.stmts
          /\ \E ans \in DescribeAnswers :
                SrvReply(<<[type |-> "parameterDescription", params |-> ans.params,
                            op |-> m.op],
                           IF ans.fields = <<>>
                           THEN [type |-> "noData", op |-> m.op]
                           ELSE [type |-> "rowDescription", fields |-> ans.fields,
                                 op |-> m.op]>>)
       \/ /\ m.name \in srv.stmts
          /\ SrvFail(DescribeError, m.op)
       \/ /\ m.name \notin srv.stmts
          /\ SrvFail(NoStatement, m.op)
    /\ UNCHANGED hist
    /\ TySrvFrame

SrvClose ==
    /\ ~srv.latched
    /\ SrvHead("close")
    /\ srv' = [srv EXCEPT !.stmts = @ \ {Head(toServer).name},
                          !.out = Append(@, [type |-> "closeComplete",
                                             op |-> Head(toServer).op])]
    /\ UNCHANGED <<inbox, hist>>
    /\ TySrvFrame

SrvFlush ==
    /\ ~srv.latched
    /\ SrvHead("flush")
    /\ inbox' = inbox \o srv.out
    /\ srv' = [srv EXCEPT !.out = <<>>]
    /\ UNCHANGED hist
    /\ TySrvFrame

SrvSync ==
    /\ SrvHead("sync")
    /\ inbox' = inbox \o srv.out
                  \o <<[type |-> "readyForQuery", trxStatus |-> "I",
                        op |-> Head(toServer).op]>>
    /\ srv' = [srv EXCEPT !.latched = FALSE, !.out = <<>>]
    /\ UNCHANGED hist
    /\ TySrvFrame

\* A simple query: its rows, or an error; either ends with ready-for-query.
SrvQuery ==
    /\ ~srv.latched
    /\ SrvHead("query")
    /\ LET m == Head(toServer)
           known == m.query.kind = "explain" => Unescape(m.query.ident) \in srv.stmts
       IN
       \/ /\ known
          /\ \E rows \in QueryAnswers(m.query) :
                inbox' = inbox \o srv.out \o QueryResponse(rows, m.op)
          /\ UNCHANGED hist
       \/ /\ \E fields \in (IF known THEN QueryErrors ELSE {NoStatement}) :
                /\ inbox' = inbox \o srv.out
                              \o <<ErrorResponse(fields, m.op),
                                   [type |-> "readyForQuery", trxStatus |-> "I",
                                    op |-> m.op]>>
                /\ hist' = [hist EXCEPT !.queryErr = fields]
    /\ srv' = [srv EXCEPT !.out = <<>>]
    /\ TySrvFrame

(***************************************************************************)
(* Specifications                                                          *)
(***************************************************************************)
InitEscape ==
    InitEscapeVars /\ IdleReduceVars /\ IdleChanVars /\ IdleStartupVars /\ IdleTypesVars
NextEscape == EscapeCall
SpecEscape == InitEscape /\ [][NextEscape]_vars

InitReduce ==
    InitReduceVars /\ IdleEscapeVars /\ IdleChanVars /\ IdleStartupVars /\ IdleTypesVars
NextReduce == ReduceCall
SpecReduce == InitReduce /\ [][NextReduce]_vars

InitStartup == InitStartupVars /\ IdleEscapeVars /\ IdleReduceVars /\ IdleTypesVars
NextStartup ==
    \/ SuConnect \/ SuFirstReply \/ SuSaslContinueReply \/ SuSaslFinalReply
    \/ SuAuthOkReply \/ SuDrainReply \/ SuReadyReply \/ SuChannelFail
    \/ SuSrvStartup \/ SuSrvPassword \/ SuSrvSaslInitial \/ SuSrvSaslResponse
    \/ SuSrvPostAuth \/ SuSrvReady \/ SuSrvAsync
SpecStartup == InitStartup /\ [][NextStartup]_vars

\* The server sends ready-for-query after authentication-ok, and a reply that
\* can settle does.
SpecStartupFair ==
    InitStartup /\ [][NextStartup]_vars
    /\ WF_vars(SuSrvReady) /\ WF_vars(SuDrainReply) /\ WF_vars(SuReadyReply)

Init == InitTypesVars /\ IdleEscapeVars /\ IdleReduceVars /\ IdleStartupVars
Next ==
    \/ GetTypesCall \/ TdParseReply \/ TdParamsReply \/ TdFieldsReply \/ TdCloseReply
    \/ ExParseReply \/ RqRowDescReply \/ RqRowsReply \/ ExCloseReply \/ ChannelFail
    \/ SrvDiscard \/ SrvParse \/ SrvDescribe \/ SrvClose \/ SrvFlush \/ SrvSync
    \/ SrvQuery
Spec == Init /\ [][Next]_vars

(***************************************************************************)
(* Claims about startup (checked under SpecStartup)                        *)
(***************************************************************************)
OnSaslPath == saslSession.clientNonce # Undef

SaslVerified ==
    /\ "SASLData" \in DOMAIN saslSession.finalSASL
    /\ saslSession.finalSASL.SASLData =
           ServerSignature(suPassword, saslSession.clientNonce, saslSession.SASLData)

\* C4: on the SASL path startup ends successfully only if the server's
\* SASL-final data matched the signature computed from the password, the
\* client nonce and the server challenge; with a mismatch or no final data it
\* ends Failed, whatever parameter-status and backend-key-data messages came
\* before ready-for-query.
C4_SaslSuccessOnlyIfVerified ==
    (OnSaslPath /\ suPc = "exited") =>
        /\ suOutcome \in {"Completed", "Failed"}
        /\ suOutcome = "Completed" => SaslVerified
        /\ ~SaslVerified => suOutcome = "Failed"

\* C4 witness: the SASL handshake completed after the server sent
\* MaxPostAuth messages between authentication-ok and ready-for-query.
C4_Witness ==
    /\ OnSaslPath
    /\ suOutcome = "Completed"
    /\ suSrv.postAuth = MaxPostAuth
    /\ SaslVerified

\* C5: when the first reply is an authentication request and no password was
\* supplied, startup has failed at once having sent nothing but the startup
\* message; when the first reply is ready-for-query, startup has succeeded
\* having sent nothing further, with or without a password.
C5_FirstReply ==
    /\ (suFirst \in AuthRequests /\ suPassword \in {Undef, ""}) =>
           /\ suOutcome = "Failed"
           /\ Len(sentLog) = 1 /\ sentLog[1].type = "startupMessage"
    /\ suFirst = "readyForQuery" =>
           /\ suOutcome = "NoAuthRequired"
           /\ Len(sentLog) = 1 /\ sentLog[1].type = "startupMessage"

\* C5 witness: the server asked for SASL authentication and no password was
\* supplied.
C5_Witness ==
    /\ suFirst = "authenticationSASL"
    /\ suPassword = Undef
    /\ suOutcome = "Failed"

(***************************************************************************)
(* Claims about escapeSqlIdentifier (checked under SpecEscape)             *)
(***************************************************************************)
\* C10 as stated: for every input string, over an alphabet that includes the
\* double quote and NUL, stripping the outer quotes of escapeSqlIdentifier(str)
\* and collapsing each doubled double quote to one reproduces str.
C10_RoundTripAll == escDone => Unescape(escOut) = escIn

\* C10 amended: for every input string that holds no NUL character the round
\* trip reproduces str, and the output is wrapped in double quotes.
C10_RoundTripNoNul ==
    (escDone /\ NUL \notin Range(escIn)) =>
        /\ Unescape(escOut) = escIn
        /\ escOut[1] = DQ /\ escOut[Len(escOut)] = DQ

\* C10 witness: a NUL-free input with two adjacent double quotes was escaped.
C10_Witness ==
    /\ escDone
    /\ NUL \notin Range(escIn)
    /\ Len(escIn) >= 3
    /\ escIn[1] = DQ /\ escIn[2] = DQ
    /\ Unescape(escOut) = escIn

(***************************************************************************)
(* Claims about reduceTypeRows (checked under SpecReduce)                  *)
(***************************************************************************)
RECURSIVE LabelsOf(_)
LabelsOf(rows) ==
    IF rows = <<>> THEN <<>> ELSE <<Head(rows).enumLabel>> \o LabelsOf(Tail(rows))

RowsOfOid(rows, oid) == LET same(r) == r.oid = oid IN SelectSeq(rows, same)
EnumRowsOfOid(rows, oid) ==
    LET same(r) == r.oid = oid /\ r.typeKind = DatabaseTypeKindEnum
    IN SelectSeq(rows, same)
EnumOids(rows) == {rows[i].oid : i \in {j \in 1..Len(rows) : rows[j].typeKind = DatabaseTypeKindEnum}}

\* C6 as stated: every oid with at least one row of enum kind maps to an Enum
\* whose labels are the enumLabel values of all the rows of that oid, one per
\* row, in input order.
C6_LabelsOfAllRows ==
    redDone =>
        \A oid \in EnumOids(redIn) :
            /\ oid \in DOMAIN redOut
            /\ isEnum(redOut[oid])
            /\ redOut[oid].enumValues = LabelsOf(RowsOfOid(redIn, oid))

\* C6 amended: every oid with at least one row of enum kind maps to an Enum
\* whose labels are the enumLabel values of the enum-kind rows of that oid, one
\* per such row, in input order; rows of other oids in between change nothing.
C6_LabelsOfEnumRows ==
    redDone =>
        \A oid \in EnumOids(redIn) :
            /\ oid \in DOMAIN redOut
            /\ isEnum(redOut[oid])
            /\ redOut[oid].enumValues = LabelsOf(EnumRowsOfOid(redIn, oid))

\* C6 witness: two enum rows of one oid with different labels, a row of
\* another oid between them, were aggregated.
C6_Witness ==
    /\ redDone
    /\ Len(redIn) = 3
    /\ redIn[1].oid = "100" /\ redIn[1].typeKind = DatabaseTypeKindEnum
    /\ redIn[2].oid = "300"
    /\ redIn[3].oid = "100" /\ redIn[3].typeKind = DatabaseTypeKindEnum
    /\ redIn[1].enumLabel = "b" /\ redIn[3].enumLabel = "a"
    /\ redOut["100"].enumValues = <<"b", "a">>


(***************************************************************************)
(* Claims about getTypes (checked under Spec)                              *)
(***************************************************************************)
\* The message types the reply at position pc awaits.
AwaitedAt(pc) ==
    CASE pc \in {"td_parse", "ex_parse"} -> TdParseExpected
      [] pc = "td_params" -> TdParamsExpected
      [] pc = "td_fields" -> TdFieldsExpected
      [] pc \in {"td_close", "ex_close"} -> CloseExpected
      [] pc = "rq_rowdesc" -> RqRowDescExpected
      [] pc = "rq_rows" -> RqRowsExpected

\* The client awaits a reply that cannot come: the server has read all that
\* was sent and nothing it wrote settles the reply.
Hung ==
    /\ cl.pc # "idle"
    /\ toServer = <<>>
    /\ ~ReplyReady(inbox, AwaitedAt(cl.pc))

\* The server has read all that was sent and is ready for the next query.
IdleReady ==
    /\ ~srv.latched
    /\ srv.out = <<>>
    /\ inbox # <<>>
    /\ inbox[Len(inbox)].type = "readyForQuery"

SentStages == {sentLog[i].op % 10 : i \in 1..Len(sentLog)}
Succeeded == cl.outcome.kind = "returned" /\ "returnTypes" \in DOMAIN cl.outcome.value
ProbeDone == "params" \in DOMAIN cl.typeData

C1_ProbeErrorStep ==
    LET m == ReplyMsg(inbox, TdParseExpected) IN
    (/\ cl.pc = "td_parse"
     /\ cl' # cl
     /\ hist'.faults = hist.faults
     /\ ReplyReady(inbox, TdParseExpected)
     /\ m.type = "errorResponse")
    => /\ cl'.pc = "idle"
       /\ cl'.outcome = [kind |-> "returned",
                         value |-> [errorCode |-> m.fields.R, message |-> m.fields.M,
                                    hint |-> m.fields.H, position |-> m.fields.P]]
       /\ toServer'[Len(toServer')].type = "sync"

C1_ChannelIdleReady ==
    /\ (/\ hist.faults = 0
        /\ cl.pc = "idle"
        /\ IsParseError(cl.typeData)
        /\ toServer = <<>>)
       => IdleReady
    /\ (/\ hist.faults = 0
        /\ hist.prevProbeErr
        /\ cl.pc \in {"td_parse", "td_params", "td_fields", "td_close"})
       => ~Hung /\ ~hist.foreign

C2_ExplainRaisedStep ==
    LET m == ReplyMsg(inbox, AwaitedAt(cl.pc)) IN
    (/\ cl.pc \in {"rq_rowdesc", "rq_rows"}
     /\ cl.rqCaller = "explain"
     /\ cl' # cl
     /\ hist'.faults = hist.faults
     /\ ReplyReady(inbox, AwaitedAt(cl.pc))
     /\ m.type = "errorResponse")
    => /\ cl'.pc = "ex_close"
       /\ cl'.pending = [errorCode |-> "_ERROR", message |-> m.fields.M]
       /\ cl'.outcome.kind = "none"

C2_ExplainRaisedReturns ==
    (hist.faults = 0 /\ cl.exBranch = "raised")
    => /\ DOMAIN cl.pending = {"errorCode", "message"}
       /\ cl.pending.errorCode = "_ERROR"
       /\ cl.pending.message = hist.queryErr.M
       /\ ~Hung
       /\ cl.pc \in {"ex_close", "idle"}
       /\ cl.pc = "idle" => cl.outcome = [kind |-> "returned", value |-> cl.pending]

ExplainSent ==
    LET mine(m) == m.op = cl.exOp
        msgs == SelectSeq(sentLog, mine)
    IN [i \in 1..Len(msgs) |-> msgs[i].type]

\* C3: on each outcome of explainQuery (second parse rejected, explain query
\* succeeded, explain query raised) the client has sent close, flush and sync
\* in that order after its parse and flush, the close-complete it then awaits
\* arrives, and once it returned the server is ready for query.
C3_CleanupOnEveryBranch ==
    (hist.faults = 0 /\ cl.exBranch # "none")
    => /\ ExplainSent = <<"parse", "flush", "close", "flush", "sync">>
       /\ ~Hung
       /\ (cl.pc = "idle" /\ toServer = <<>>) => IdleReady

StageRank(op) ==
    CASE op % 10 = 1 -> 1 [] op % 10 \in {2, 3} -> 2 [] op % 10 = 4 -> 3
      [] op % 10 = 5 -> 4 [] op % 10 = 6 -> 5

\* C7: the messages of one getTypes call are sent in the order probe, explain
\* validation, type-catalog query, comment query, attribute query; when the
\* probe returned a ParseError getTypes has returned that value and sent
\* nothing but the probe's messages and its sync; when explain validation
\* returned a ParseError getTypes has returned that value and sent none of
\* the three catalog queries.
C7_OrderAndShortCircuit ==
    /\ \A i, j \in 1..Len(sentLog) :
          i < j => StageRank(sentLog[i].op) <= StageRank(sentLog[j].op)
    /\ \A i \in 1..Len(sentLog) : sentLog[i].op \div 10 = cl.calls
    /\ IsParseError(cl.typeData)
       => /\ cl.pc = "idle"
          /\ cl.outcome = [kind |-> "returned", value |-> cl.typeData]
          /\ [i \in 1..Len(sentLog) |-> sentLog[i].type]
               = <<"parse", "describe", "close", "flush", "sync">>
          /\ SentStages = {1}
    /\ IsParseError(cl.testRunResult)
       => /\ cl.pc = "idle"
          /\ cl.outcome = [kind |-> "returned", value |-> cl.testRunResult]
          /\ SentStages \subseteq {1, 2, 3}
    /\ (SentStages \cap {4, 5, 6} # {})
       => ProbeDone /\ cl.testRunResult # Unset /\ ~IsParseError(cl.testRunResult)
    /\ (SentStages \cap {2, 3} # {}) => ProbeDone

\* C7 witness: explain validation returned a ParseError after the probe had
\* succeeded, and getTypes returned.
C7_Witness ==
    /\ ProbeDone
    /\ IsParseError(cl.testRunResult)
    /\ cl.pc = "idle"
    /\ SentStages = {1, 2, 3}

\* C8: with an empty oid list runTypesCatalogQuery sends nothing and yields no
\* row; with no field of positive columnAttrNumber getComments sends nothing
\* and yields no comment.
C8_EmptyInputShortCircuits ==
    ProbeDone
    => /\ UsedTypesOIDs(cl.typeData) = <<>>
          => 4 \notin SentStages /\ cl.typeRows = <<>>
       /\ (\A i \in 1..Len(cl.typeData.fields) :
              ~(cl.typeData.fields[i].columnAttrNumber > 0))
          => 5 \notin SentStages /\ cl.commentRows = <<>>

\* C8 witness: getTypes succeeded for a statement with no parameter and no
\* field, having sent the attribute query only.
C8_Witness ==
    /\ Succeeded
    /\ UsedTypesOIDs(cl.typeData) = <<>>
    /\ cl.typeData.fields = <<>>
    /\ SentStages = {1, 2, 3, 6}

\* The attribute rows whose attid is the field's 'tableOID:columnAttrNumber'.
AttrRowsOf(f) ==
    {cl.attributeRows[i] : i \in
        {j \in 1..Len(cl.attributeRows) :
            cl.attributeRows[j][1]
              = <<TextOf(f.tableOID), ":", TextOf(f.columnAttrNumber)>>}}

\* C9: on success returnTypes has one entry per probed field, in field order,
\* with the field's name as returnName, the catalog mapping of its typeOID as
\* type, and columnName and nullable from the attribute row of its
\* 'tableOID:columnAttrNumber' (nullable false exactly when attnotnull is
\* 't'); params is the catalog mapping of each parameter oid in declared
\* order and mapping is the caller's.
C9_ResultAssembly ==
    Succeeded
    => LET value == cl.outcome.value
           fields == cl.typeData.fields
           params == cl.typeData.params
           typeMap == reduceTypeRows(cl.typeRows)
       IN /\ Len(value.returnTypes) = Len(fields)
          /\ \A i \in 1..Len(fields) :
                /\ value.returnTypes[i].returnName = fields[i].name
                /\ value.returnTypes[i].type = TypeOfOid(typeMap, fields[i].typeOID)
                /\ \A row \in AttrRowsOf(fields[i]) :
                      /\ value.returnTypes[i].columnName = row[2]
                      /\ value.returnTypes[i].nullable = FALSE <=> row[3] = "t"
          /\ Len(value.paramMetadata.params) = Len(params)
          /\ \A i \in 1..Len(params) :
                value.paramMetadata.params[i] = TypeOfOid(typeMap, params[i].oid)
          /\ value.paramMetadata.mapping = cl.queryData.mapping
          /\ (fields = <<F_id, F_name>> /\ params = <<[oid |-> 23]>>)
             => /\ value.paramMetadata.params = <<Scalar("int4")>>
                /\ value.returnTypes
                     = <<[returnName |-> "id", columnName |-> "id",
                          type |-> Scalar("int4"), nullable |-> FALSE],
                         [returnName |-> "name", columnName |-> "name",
                          type |-> Scalar("text"), nullable |-> TRUE,
                          comment |-> "the name"]>>

\* C9 witness: getTypes succeeded for a statement with one int4 parameter
\* and the columns id and name.
C9_Witness ==
    /\ Succeeded
    /\ cl.typeData.fields = <<F_id, F_name>>
    /\ cl.typeData.params = <<[oid |-> 23]>>


\* A step in which an operation (getTypeData, explainQuery, runQuery) sends
\* its first message; explainQuery's cleanup after its runQuery is not one.
OpStarts == cl'.op # cl.op /\ ~(cl.op % 10 = 3 /\ cl'.op % 10 = 2)

C12_SyncOnEveryExit ==
    cl.pc = "idle"
    => /\ \A i \in 1..Len(sentLog) :
             sentLog[i].type = "parse"
             => \E j \in (i + 1)..Len(sentLog) :
                   sentLog[j].type = "sync" /\ sentLog[j].op = sentLog[i].op
       /\ toServer = <<>> => ~srv.latched


(***************************************************************************)
(* Further claims about startup (checked under SpecStartup)                *)
(***************************************************************************)
\* The message types startup awaits at position pc.
SuAwaited(pc) ==
    CASE pc = "first_reply" -> SuFirstExpected
      [] pc = "sasl_continue" -> {"AuthenticationSASLContinue"}
      [] pc = "sasl_final" -> {"authenticationSASLFinal"}
      [] pc \in {"sasl_ok", "auth_ok"} -> {"authenticationOk"}
      [] pc = "drain" -> SuDrainExpected
      [] pc = "ready" -> {"readyForQuery"}
      [] OTHER -> {}

\* A step in which a reply of startup settles.
SuReplySettles == Len(inbox') < Len(inbox)

StartupMessagesSent ==
    Cardinality({i \in 1..Len(sentLog) : sentLog[i].type = "startupMessage"})

\* Once failed, startup sends nothing; it sends the startup message once.
C13_FailureIsTerminal ==
    /\ suOutcome = "Failed" => (suOutcome' = "Failed" /\ sentLog' = sentLog)
    /\ StartupMessagesSent' <= 1

\* An unsupported mechanism list and a failed signature check are fatal.
C13_FatalChecks ==
    LET m == ReplyMsg(inbox, SuAwaited(suPc)) IN
    /\ (/\ SuReplySettles
        /\ suPc = "first_reply"
        /\ m.type = "authenticationSASL"
        /\ suPassword = "secret"
        /\ "SCRAM-SHA-256" \notin Range(m.SASLMechanisms))
       => (suOutcome' = "Failed" /\ sentLog' = sentLog)
    /\ (/\ SuReplySettles
        /\ suPc = "drain"
        /\ m.type = "readyForQuery"
        /\ ~SaslVerified)
       => suOutcome' = "Failed"

C14_DrainStep ==
    /\ (suPc = "drain" /\ SuReplySettles)
       => /\ inbox' = Tail(inbox)
          /\ Head(inbox).type \in {"parameterStatus", "backendKeyData", "readyForQuery"}
          /\ Head(inbox).type \in {"parameterStatus", "backendKeyData"} => suPc' = "drain"
          /\ Head(inbox).type = "readyForQuery" => suPc' = "exited"
    /\ suPc = "exited" => Len(inbox') >= Len(inbox)

\* C14: on the SASL path after authentication-ok, whatever parameter-status
\* and backend-key-data messages come before ready-for-query, in any order
\* and number (none included), the loop consumes them one by one, ends when
\* it consumes the first ready-for-query, consumes nothing after it, and does
\* end.
C14_DrainLoop ==
    /\ [][C14_DrainStep]_vars
    /\ [](suPc = "drain" /\ suSrv.phase \in {"ready", "done"}
            => inbox # <<>> /\ inbox[Len(inbox) - (IF suSrv.phase = "done" THEN 1 ELSE 0)].type
                                 = "readyForQuery")
    /\ (suPc = "drain") ~> (suPc = "exited")

\* C14 witness: ready-for-query was the first message after authentication-ok;
\* the loop ended on it and left the message that came after it unconsumed.
C14_Witness ==
    /\ OnSaslPath
    /\ suOutcome = "Completed"
    /\ suSrv.postAuth = 0
    /\ suSrv.phase = "done"
    /\ Len(inbox) = 1 /\ inbox[1].type = "parameterStatus"


\* The first ready-for-query in the inbox, 0 if there is none.
FirstReady ==
    LET hits == {i \in 1..Len(inbox) : inbox[i].type = "readyForQuery"}
    IN IF hits = {} THEN 0 ELSE Min(hits)

C20_ReadyStep ==
    (suPc = "ready" /\ SuReplySettles)
    => /\ suOutcome' = "Completed"
       /\ FirstReady > 0
       /\ inbox' = SubSeq(inbox, FirstReady + 1, Len(inbox))

C20_ReadyArrives ==
    /\ suPc \in {"auth_ok", "ready"} => suFirst \in {"authenticationCleartextPassword",
                                                     "authenticationMD5Password"}
    /\ (suPc = "ready" /\ suSrv.phase \in {"ready", "done"})
       => /\ FirstReady > 0
          /\ \A i \in 1..(FirstReady - 1) :
                inbox[i].type \in {"parameterStatus", "backendKeyData"}

InputOids(rows) == {rows[i].oid : i \in 1..Len(rows)}

\* The Enum pass 1 builds for an oid with enum-kind rows.
EnumOfOid(rows, oid) ==
    LET enumRows == EnumRowsOfOid(rows, oid)
    IN EnumType(enumRows[Len(enumRows)].typeName, LabelsOf(enumRows))

\* C15: an oid with no enum-kind row, by its row, resolves to an Array
\* wrapping the element's Enum with all of that Enum's labels when the row's
\* type category is 'A' and its elementTypeOid has enum-kind rows, wherever
\* those rows stand in the input, and to the Scalar named by the row's type
\* name otherwise; the result has one entry per distinct oid of the input.
C15_ArrayAndScalar ==
    redDone =>
        /\ DOMAIN redOut = InputOids(redIn)
        /\ \A oid \in InputOids(redIn) \ EnumOids(redIn) :
              Len(RowsOfOid(redIn, oid)) = 1
              => LET row == RowsOfOid(redIn, oid)[1] IN
                 IF /\ row.typeCategory = "A"
                    /\ row.elementTypeOid \in EnumOids(redIn)
                 THEN redOut[oid]
                        = ArrayType(row.typeName, EnumOfOid(redIn, row.elementTypeOid))
                 ELSE redOut[oid] = Scalar(row.typeName)

\* C15 witness: an array row came before the two enum rows of its element
\* and wraps the Enum with both labels.
C15_Witness ==
    /\ redDone
    /\ Len(redIn) = 3
    /\ redIn[1].oid = "300" /\ redIn[1].typeCategory = "A"
    /\ redIn[1].elementTypeOid = "100"
    /\ redIn[2].oid = "100" /\ redIn[2].typeKind = DatabaseTypeKindEnum
    /\ redIn[3].oid = "100" /\ redIn[3].typeKind = DatabaseTypeKindEnum
    /\ redOut["300"].kind = "array"
    /\ redOut["300"].elementType.enumValues = <<redIn[2].enumLabel, redIn[3].enumLabel>>


\* The rows of oid that pass 2 resolves as an array of an enum.
ArrayRowsOfOid(rows, oid) ==
    LET hit(r) == /\ r.oid = oid
                  /\ r.typeCategory = "A"
                  /\ r.elementTypeOid \in EnumOids(rows)
    IN SelectSeq(rows, hit)

\* rows without its element at position j
RemoveAt(rows, j) == SubSeq(rows, 1, j - 1) \o SubSeq(rows, j + 1, Len(rows))

\* C16 as stated: when several non-enum rows share an oid the resulting
\* Scalar is named from the last of them.
C16_LastWriteWins ==
    redDone =>
        \A oid \in InputOids(redIn) \ EnumOids(redIn) :
            LET rows == RowsOfOid(redIn, oid) IN
            (Len(rows) >= 2 /\ redOut[oid].kind = "scalar")
            => redOut[oid] = Scalar(rows[Len(rows)].typeName)

\* C16 amended: when several non-enum rows share an oid, the entry is the
\* Array of the last of them that is an array of an enum, and with no such
\* row the Scalar named from the first of them; two identical rows of an oid
\* give the result of one.
C16_FirstScalarWins ==
    redDone =>
        /\ \A oid \in InputOids(redIn) \ EnumOids(redIn) :
              LET rows == RowsOfOid(redIn, oid)
                  arrays == ArrayRowsOfOid(redIn, oid)
              IN IF arrays # <<>>
                 THEN redOut[oid]
                        = ArrayType(arrays[Len(arrays)].typeName,
                                    EnumOfOid(redIn, arrays[Len(arrays)].elementTypeOid))
                 ELSE redOut[oid] = Scalar(rows[1].typeName)
        /\ \A i, j \in 1..Len(redIn) :
              (/\ i < j
               /\ redIn[i] = redIn[j]
               /\ redIn[i].typeKind # DatabaseTypeKindEnum
               /\ Len(RowsOfOid(redIn, redIn[i].oid)) = 2)
              => redOut = reduceTypeRows(RemoveAt(redIn, j))

\* C16 witness: two scalar rows of one oid with different names; the entry
\* is named from the first.
C16_Witness ==
    /\ redDone
    /\ Len(redIn) = 2
    /\ redIn[1].oid = "300" /\ redIn[2].oid = "300"
    /\ redIn[1].typeKind = "b" /\ redIn[2].typeKind = "b"
    /\ redIn[1].typeCategory = "S" /\ redIn[2].typeCategory = "S"
    /\ redIn[1].typeName = "t" /\ redIn[2].typeName = "u"
    /\ redOut["300"] = Scalar("t")


(***************************************************************************)
(* Further claims about getTypes (checked under Spec)                      *)
(***************************************************************************)
\* The (tableOID, columnAttrNumber) predicates of the queries of one kind
\* sent in this call.
MatchersSent(kind) ==
    LET hit(m) == m.type = "query" /\ m.query.kind = kind
        msgs == SelectSeq(sentLog, hit)
    IN [i \in 1..Len(msgs) |-> msgs[i].query.matchers]

MatcherOf(f) == <<TextOf(f.tableOID), TextOf(f.columnAttrNumber)>>
MatchersOf(fields) == [i \in 1..Len(fields) |-> MatcherOf(fields[i])]
RealColumn(f) == f.columnAttrNumber > 0
NonColumnMatchers ==
    {MatcherOf(cl.typeData.fields[i]) :
        i \in {j \in 1..Len(cl.typeData.fields) :
                  cl.typeData.fields[j].columnAttrNumber <= 0}}

QueriesSentBy(op) ==
    Cardinality({i \in 1..Len(sentLog) : sentLog[i].type = "query" /\ sentLog[i].op = op})

\* The error a rejected await of runQuery raises.
RaisedBy(m) == [type |-> "ServerError", message |-> m.fields.M]

\* One step of runQuery: the row description, a data row, command-complete,
\* or a rejected await.
C18_RunQueryStep ==
    LET m == ReplyMsg(inbox, AwaitedAt(cl.pc)) IN
    (/\ cl.pc \in {"rq_rowdesc", "rq_rows"}
     /\ cl' # cl
     /\ hist'.faults = hist.faults)
    => /\ (cl.pc = "rq_rowdesc" /\ m.type = "rowDescription")
          => cl'.pc = "rq_rows" /\ cl'.resultRows = <<>>
       /\ (cl.pc = "rq_rows" /\ m.type = "dataRow")
          => /\ cl'.pc = "rq_rows"
             /\ cl'.resultRows
                  = cl.resultRows
                      \o <<[j \in 1..Len(m.columns) |-> m.columns[j].value[2]]>>
       /\ (cl.pc = "rq_rows" /\ m.type = "commandComplete")
          => /\ cl'.pc # "rq_rows"
             /\ cl.rqCaller = "attrs" => cl'.attributeRows = cl.resultRows
             /\ cl.rqCaller = "explain"
                => cl'.pending
                     = [plan |-> [i \in 1..Len(cl.resultRows) |-> cl.resultRows[i][1]]]
       /\ m.type = "errorResponse"
          => IF cl.rqCaller = "explain"
             THEN cl'.pending = [errorCode |-> "_ERROR", message |-> RaisedBy(m).message]
             ELSE cl'.outcome = [kind |-> "threw", error |-> RaisedBy(m)]

\* A channel failure at an await of runQuery leaves runQuery as an exception.
C18_ChannelErrorStep ==
    (/\ cl.pc \in {"rq_rowdesc", "rq_rows"}
     /\ hist'.faults = hist.faults + 1)
    => IF cl.rqCaller = "explain"
       THEN cl'.pending = [errorCode |-> "_ERROR", message |-> ChannelError.message]
       ELSE cl'.outcome = [kind |-> "threw", error |-> ChannelError]

C18_RunQueryReturns ==
    /\ \A i \in 1..Len(sentLog) :
          sentLog[i].type = "query" => QueriesSentBy(sentLog[i].op) = 1
    /\ (hist.faults = 0 /\ cl.pc \in {"rq_rowdesc", "rq_rows"}) => ~Hung
    /\ (hist.faults = 0 /\ Succeeded)
       => /\ cl.attributeRows = AttrsAnswer(AttrsSql(cl.typeData.fields))
          /\ 4 \in SentStages
             => cl.typeRows = TypeRowsOf(TypesAnswer(TypesSql(UsedTypesOIDs(cl.typeData))))

\* C18: runQuery sends one query message, consumes one row description, then
\* data rows up to the first command-complete, and returns one row per data
\* row in arrival order with every column value as text; an await that is
\* rejected ends runQuery with that error, which reaches its caller.
C18_RunQueryLoop ==
    /\ [][C18_RunQueryStep /\ C18_ChannelErrorStep]_vars
    /\ []C18_RunQueryReturns

\* C18 witness: runQuery returned the two rows of the attribute query, in
\* the order the server sent them.
C18_Witness ==
    /\ hist.faults = 0
    /\ Succeeded
    /\ cl.attributeRows = <<<<<<"10", ":", "1">>, "id", "t">>,
                            <<<<"10", ":", "2">>, "name", "f">>>>


\* C19: while no await was rejected by a channel failure, no parse of
\* getTypeData or explainQuery is refused because a statement of its name
\* exists, and once getTypes has ended and the server has read all that was
\* sent, no prepared statement remains.
C19_NoLeakNoCollision ==
    hist.faults = 0
    => /\ hist.parseErr # DuplicateStatement
       /\ (cl.pc = "idle" /\ toServer = <<>>) => srv.stmts = {}

====
